---- MODULE Spec2Model ----
(***************************************************************************)
(* Query planning and evaluation core of oqt (src/src/main.rs).            *)
(*                                                                         *)
(* Strings are sequences of one-character strings, so that split_at and    *)
(* concat are computed as the code computes them.  Option<T> is <<>> for   *)
(* None and <<x>> for Some(x).  A SetBuf/Set is the sorted sequence it     *)
(* wraps.  A HashMap is a function whose DOMAIN is its key set.            *)
(***************************************************************************)
EXTENDS Integers, Sequences, FiniteSets, TLC

VARIABLES
    pc,      \* position of the driver (which call has been made)
    ctx,     \* Context { synonyms, postings }
    word,    \* argument of split_best_frequency
    best,    \* value returned by split_best_frequency
    query,   \* argument of create_query_tree (the raw query string)
    tree,    \* Operation: built by create_query_tree or given to traverse_query_tree
    mapper,  \* QueryWordsMapper as left by create_query_tree
    run      \* outcome of traverse_query_tree / execute_query

vars == <<pc, ctx, word, best, query, tree, mapper, run>>

----------------------------------------------------------------------------
(* Bounds of the model *)

MaxDoc == 2
MaxWordLen == 3
MaxQueryLen == 6
MaxMatches == 3

----------------------------------------------------------------------------
(* Generic helpers *)

None == <<>>
Some(x) == <<x>>

Min(a, b) == IF a <= b THEN a ELSE b
Max(a, b) == IF a >= b THEN a ELSE b

Range(s) == {s[i] : i \in 1..Len(s)}

RECURSIVE Pow(_, _)
Pow(b, e) == IF e = 0 THEN 1 ELSE b * Pow(b, e - 1)

RECURSIVE Concat(_)
Concat(ss) == IF ss = <<>> THEN <<>> ELSE Head(ss) \o Concat(Tail(ss))

\* Ord for DocId
DocLess(a, b) == a < b
\* Ord for (DocId, Position) and for (DocId, u32): lexicographic
PairLess(a, b) == a[1] < b[1] \/ (a[1] = b[1] /\ a[2] < b[2])

\* All sequences over S of length at most n
RECURSIVE SeqsUpTo(_, _)
SeqsUpTo(S, n) ==
    IF n = 0 THEN {<<>>}
    ELSE LET shorter == SeqsUpTo(S, n - 1)
         IN shorter \cup {Append(s, x) : s \in {t \in shorter : Len(t) = n - 1}, x \in S}

\* The ascending sequence of a finite set of DocIds
RECURSIVE SortDocs(_)
SortDocs(S) ==
    IF S = {} THEN <<>>
    ELSE LET m == CHOOSE x \in S : \A y \in S : ~DocLess(y, x)
         IN <<m>> \o SortDocs(S \ {m})

\* The ascending sequence of a finite set of (DocId, Position)
RECURSIVE SortPairs(_)
SortPairs(S) ==
    IF S = {} THEN <<>>
    ELSE LET m == CHOOSE x \in S : \A y \in S : ~PairLess(y, x)
         IN <<m>> \o SortPairs(S \ {m})

----------------------------------------------------------------------------
(* Context *)

PostingsList(docids, matches) == [docids |-> docids, matches |-> matches]

Context(synonyms, postings) == [synonyms |-> synonyms, postings |-> postings]

EmptyMap == [k \in {} |-> <<>>]

\* ctx.postings.get(term).map(|b| b.docids.len()).unwrap_or(0)
Freq(c, term) ==
    IF term \in DOMAIN c.postings THEN Len(c.postings[term].docids) ELSE 0

----------------------------------------------------------------------------
(* split_best_frequency *)

\* The loop with `>=` for `>`: it keeps the last of the best splits.
RECURSIVE SplitLoopLast(_, _, _, _)
SplitLoopLast(c, w, i, b) ==
    IF i >= Len(w) THEN b
    ELSE LET left == SubSeq(w, 1, i)
             right == SubSeq(w, i + 1, Len(w))
             min_freq == Min(Freq(c, left), Freq(c, right))
             take == min_freq /= 0 /\ (b = None \/ min_freq >= b[1][1])
         IN SplitLoopLast(c, w, i + 1, IF take THEN Some(<<min_freq, left, right>>) ELSE b)

\* The loop of split_best_frequency from split index i on; b is `best`,
\* None or Some((min_freq, left, right)).
RECURSIVE SplitLoop(_, _, _, _)
SplitLoop(c, w, i, b) ==
    IF i >= Len(w) THEN b
    ELSE LET left == SubSeq(w, 1, i)
             right == SubSeq(w, i + 1, Len(w))
             min_freq == Min(Freq(c, left), Freq(c, right))
             take == min_freq /= 0 /\ (b = None \/ min_freq > b[1][1])
         IN SplitLoop(c, w, i + 1, IF take THEN Some(<<min_freq, left, right>>) ELSE b)

split_best_frequency(c, w) ==
    LET b == SplitLoop(c, w, 1, None)
    IN IF b = None THEN None ELSE Some(<<b[1][2], b[1][3]>>)

----------------------------------------------------------------------------
(* Inputs of split_best_frequency *)

Letters == {"a", "b"}

Words == SeqsUpTo(Letters, MaxWordLen) \ {<<>>}

\* The terms split_best_frequency probes for word w
SplitTerms(w) ==
    {SubSeq(w, 1, i) : i \in 1..(Len(w) - 1)} \cup {SubSeq(w, i + 1, Len(w)) : i \in 1..(Len(w) - 1)}

\* Postings lists with 0..MaxDoc documents (split_best_frequency reads the length only)
FreqPostings == {PostingsList(SortDocs(1..n), <<>>) : n \in 0..MaxDoc}

NoRun == [status |-> "none", docids |-> <<>>, queries |-> EmptyMap, executed |-> <<>>, cache |-> EmptyMap]
NoTree == [op |-> "Or", children |-> <<>>, query |-> [id |-> 0, prefix |-> FALSE, kind |-> "None", words |-> <<>>]]
NoMapper == [words |-> <<>>, declared |-> <<>>]

InitSplit ==
    /\ pc = "split"
    /\ word \in Words
    /\ \E D \in SUBSET SplitTerms(word) :
          \E p \in [D -> FreqPostings] : ctx = Context(EmptyMap, p)
    /\ best = None
    /\ query = <<>>
    /\ tree = NoTree
    /\ mapper = NoMapper
    /\ run = NoRun

SplitBestFrequency ==
    /\ pc = "split"
    /\ best' = split_best_frequency(ctx, word)
    /\ pc' = "split_done"
    /\ UNCHANGED <<ctx, word, query, tree, mapper, run>>

NextSplit == SplitBestFrequency

SpecSplit == InitSplit /\ [][NextSplit]_vars

----------------------------------------------------------------------------
(* C10 *)

\* min(len(docids[left]), len(docids[right])) of the split of w at i
SplitMin(c, w, i) == Min(Freq(c, SubSeq(w, 1, i)), Freq(c, SubSeq(w, i + 1, Len(w))))

SplitIndices(w) == 1..(Len(w) - 1)

\* C10: split_best_frequency returns None exactly when every internal split
\* has minimum frequency 0; otherwise it returns the leftmost split among
\* those whose minimum frequency is the largest over all internal splits.
C10_SplitLeftmostBest ==
    pc = "split_done" =>
        LET I == SplitIndices(word)
        IN /\ (best = None) <=> (\A i \in I : SplitMin(ctx, word, i) = 0)
           /\ best /= None =>
                \E i \in I :
                    /\ best = Some(<<SubSeq(word, 1, i), SubSeq(word, i + 1, Len(word))>>)
                    /\ \A j \in I : SplitMin(ctx, word, j) <= SplitMin(ctx, word, i)
                    /\ \A j \in I : j < i => SplitMin(ctx, word, j) < SplitMin(ctx, word, i)

\* A word with two splits that tie on the best minimum, the first one returned
C10_Witness ==
    /\ pc = "split_done"
    /\ best /= None
    /\ \E i, j \in SplitIndices(word) :
          /\ i < j
          /\ SplitMin(ctx, word, i) = SplitMin(ctx, word, j)
          /\ SplitMin(ctx, word, i) > 0
          /\ \A k \in SplitIndices(word) : SplitMin(ctx, word, k) <= SplitMin(ctx, word, i)
          /\ best = Some(<<SubSeq(word, 1, i), SubSeq(word, i + 1, Len(word))>>)

----------------------------------------------------------------------------
(* Operation, Query *)

NoQuery == [id |-> 0, prefix |-> FALSE, kind |-> "None", words |-> <<>>]

\* Query { id, prefix, kind }; kind Tolerant(w) / Exact(w) carries <<w>>, Phrase(ws) carries ws
Query(id, prefix, kind, ws) == [id |-> id, prefix |-> prefix, kind |-> kind, words |-> ws]

And(ops) == [op |-> "And", children |-> ops, query |-> NoQuery]
Or(ops) == [op |-> "Or", children |-> ops, query |-> NoQuery]
QueryOp(q) == [op |-> "Query", children |-> <<>>, query |-> q]

\* f of create_operation: Operation::And or Operation::Or
Make(f, ops) == IF f = "And" THEN And(ops) ELSE Or(ops)

tolerant(id, prefix, s) == QueryOp(Query(id, prefix, "Tolerant", <<s>>))
exact(id, prefix, s) == QueryOp(Query(id, prefix, "Exact", <<s>>))
phrase2(id, prefix, ws) == QueryOp(Query(id, prefix, "Phrase", <<ws[1], ws[2]>>))

\* Equality of Query as a derived PartialEq / Hash would give it: id included
QueryKeyWithId(q) == q

\* PartialEq / Hash of Query: prefix and kind, not id
QueryKey(q) == [q EXCEPT !.id = 0]

\* PartialEq / Hash of Operation (derived): structural, leaves by QueryKey
RECURSIVE OpKey(_)
OpKey(o) ==
    [op |-> o.op,
     children |-> [i \in 1..Len(o.children) |-> OpKey(o.children[i])],
     query |-> QueryKey(o.query)]

----------------------------------------------------------------------------
(* Tokenizer of create_query_tree *)

IsWhitespace(ch) == ch = " "

\* char of str::to_lowercase
Lower(ch) == IF ch = "A" THEN "a" ELSE IF ch = "B" THEN "b" ELSE ch

to_lowercase(s) == [i \in 1..Len(s) |-> Lower(s[i])]

\* linear_group_by_key(char::is_whitespace): maximal runs of equal key
RECURSIVE linear_group_by_key(_, _, _)
linear_group_by_key(s, i, groups) ==
    IF i > Len(s) THEN groups
    ELSE LET n == Len(groups)
             same == n > 0 /\ IsWhitespace(groups[n][Len(groups[n])]) = IsWhitespace(s[i])
         IN linear_group_by_key(s, i + 1,
                IF same THEN [groups EXCEPT ![n] = Append(@, s[i])]
                ELSE Append(groups, <<s[i]>>))

\* .filter(|s| !s.contains(char::is_whitespace)).enumerate(): <<id, word>> pairs
Tokenize(q) ==
    LET groups == linear_group_by_key(to_lowercase(q), 1, <<>>)
        kept == SelectSeq(groups, LAMBDA g : \A i \in 1..Len(g) : ~IsWhitespace(g[i]))
    IN [i \in 1..Len(kept) |-> <<i - 1, kept[i]>>]

----------------------------------------------------------------------------
(* QueryWordsMapper: the calls made on it *)

QueryWordsMapper_new(ws) == [words |-> ws, declared |-> <<>>]

declare(m, range, id, replacement) ==
    [m EXCEPT !.declared = Append(@, [range |-> range, id |-> id, replacement |-> replacement])]

----------------------------------------------------------------------------
(* create_query_tree *)

MAX_NGRAM == 3
IdStride == 100

fetch_synonyms(c, ws) == IF ws \in DOMAIN c.synonyms THEN c.synonyms[ws] ELSE <<>>

create_operation(ops, f) == IF Len(ops) = 1 THEN ops[1] ELSE Make(f, ops)

\* The leaves with the ids id+1.., as if `once(id)` were not chained in front
SynonymLeavesShifted(id, alts) == [j \in 1..Len(alts) |-> exact(id + j, FALSE, alts[j])]

\* once(id).chain(&mut idgen) over the words of one synonym: ids id, id+1, ...
SynonymLeaves(id, alts) == [j \in 1..Len(alts) |-> exact(id + j - 1, FALSE, alts[j])]

\* The synonyms loop, from the k-th synonym on; idgen is the next id of the
\* range iterator.  Returns the operations, the mapper and the iterator.
RECURSIVE SynonymAlts(_, _, _, _, _, _)
SynonymAlts(m, range, idgen, synonyms, k, ops) ==
    IF k > Len(synonyms) THEN [ops |-> ops, mapper |-> m, idgen |-> idgen]
    ELSE LET alts == synonyms[k]
             id == idgen
             m2 == declare(m, range, id, alts)
             next == id + 1 + Max(Len(alts) - 1, 0)
         IN SynonymAlts(m2, range, next, synonyms, k + 1,
                Append(ops, create_operation(SynonymLeaves(id, alts), "And")))

\* is_last computed from the group alone: true only for a one-word slice
IsLastGroupSingle(ws, ngram) == Len(ws) = 1

\* let tail = &words[ngram..]; let is_last = tail.is_empty();
IsLastGroup(ws, ngram) == SubSeq(ws, ngram + 1, Len(ws)) = <<>>

\* match arm [(id, word)]
UnigramAlts(c, m, id, w, is_last) ==
    LET idgen == (id + 1) * IdStride
        range == <<id, id + 1>>
        ws == split_best_frequency(c, w)
        m1 == IF ws = None THEN m ELSE declare(m, range, idgen, <<ws[1][1], ws[1][2]>>)
        phrase == IF ws = None THEN <<>> ELSE <<phrase2(idgen, is_last, ws[1])>>
        idgen1 == IF ws = None THEN idgen ELSE idgen + 2
        syn == SynonymAlts(m1, range, idgen1, fetch_synonyms(c, <<w>>), 1, <<>>)
        original == tolerant(id, is_last, w)
    IN [alts |-> <<original>> \o syn.ops \o phrase, mapper |-> syn.mapper]

\* match arm words (two or three words)
NgramAlts(c, m, group, ngram, is_last) ==
    LET id == group[1][1]
        idgen == (id + 1) * Pow(IdStride, ngram)
        range == <<id, id + ngram>>
        ws == [i \in 1..Len(group) |-> group[i][2]]
        syn == SynonymAlts(m, range, idgen, fetch_synonyms(c, ws), 1, <<>>)
        cid == syn.idgen
        concat == Concat(ws)
        m2 == declare(syn.mapper, range, cid, <<concat>>)
    IN [alts |-> Append(syn.ops, exact(cid, is_last, concat)), mapper |-> m2]

RECURSIVE create_inner(_, _, _)
RECURSIVE NgramLoop(_, _, _, _, _)

\* for ngram in 1..=MAX_NGRAM, from `ngram` on, with the alts pushed so far
NgramLoop(c, m, ws, ngram, alts) ==
    IF ngram > MAX_NGRAM THEN [alts |-> alts, mapper |-> m]
    ELSE IF ngram > Len(ws) THEN NgramLoop(c, m, ws, ngram + 1, alts)
    ELSE LET group == SubSeq(ws, 1, ngram)
             tail == SubSeq(ws, ngram + 1, Len(ws))
             is_last == IsLastGroup(ws, ngram)
             g == IF ngram = 1 THEN UnigramAlts(c, m, group[1][1], group[1][2], is_last)
                  ELSE NgramAlts(c, m, group, ngram, is_last)
             first == create_operation(g.alts, "Or")
             t == IF tail /= <<>> THEN create_inner(c, g.mapper, tail)
                  ELSE [alts |-> <<>>, mapper |-> g.mapper]
             group_ops == IF tail /= <<>> THEN <<first, create_operation(t.alts, "Or")>>
                          ELSE <<first>>
         IN NgramLoop(c, t.mapper, ws, ngram + 1, Append(alts, create_operation(group_ops, "And")))

create_inner(c, m, ws) == NgramLoop(c, m, ws, 1, <<>>)

create_query_tree(c, q) ==
    LET ws == Tokenize(q)
        m == QueryWordsMapper_new([i \in 1..Len(ws) |-> ws[i][2]])
        r == create_inner(c, m, ws)
    IN [operation |-> Or(r.alts), mapper |-> r.mapper]

----------------------------------------------------------------------------
(* traverse_query_tree *)

\* The evaluation state threaded through execute_and / execute_or /
\* execute_query: `cache` and `postings` are the two maps of the code,
\* `executed` lists the operations whose execute_* body was entered (in call
\* order), `panic` is set when an unwrap() fails and the call unwinds.
EvalState(cache, postings, executed, panic) ==
    [cache |-> cache, postings |-> postings, executed |-> executed, panic |-> panic]

Returned(st, docids) == [st |-> st, docids |-> docids]

\* HashMap::insert / entry().or_insert on a key that is absent
MapInsert(map, k, v) == (k :> v) @@ map

\* sdset::is_sort_dedup, the test of SetBuf::new, on a Vec<DocId>: strictly ascending
is_sort_dedup_docs(s) == \A i \in 1..(Len(s) - 1) : DocLess(s[i], s[i + 1])

\* sdset::is_sort_dedup on a Vec<(DocId, Position)>
is_sort_dedup_matches(s) == \A i \in 1..(Len(s) - 1) : PairLess(s[i], s[i + 1])

\* Vec::dedup: drops consecutive repetitions
RECURSIVE dedup(_)
dedup(s) ==
    IF Len(s) <= 1 THEN s
    ELSE IF s[1] = s[2] THEN dedup(Tail(s))
    ELSE <<s[1]>> \o dedup(Tail(s))

\* (a.0, (a.1 as u32) + 1)
PhraseKey(a) == <<a[1], a[2] + 1>>

\* merge_join_by(first, second, cmp).filter_map(EitherOrBoth::both): the
\* pairs (a, b) on which cmp is Equal, from indices i and j on
RECURSIVE merge_join_both(_, _, _, _)
merge_join_both(first, second, i, j) ==
    IF i > Len(first) \/ j > Len(second) THEN <<>>
    ELSE LET a == first[i]
             b == second[j]
         IN IF PairLess(PhraseKey(a), b) THEN merge_join_both(first, second, i + 1, j)
            ELSE IF PairLess(b, PhraseKey(a)) THEN merge_join_both(first, second, i, j + 1)
            ELSE <<<<a, b>>>> \o merge_join_both(first, second, i + 1, j + 1)

\* .flat_map(|(a, b)| once(*a).chain(Some(*b)))
RECURSIVE flat_pairs(_)
flat_pairs(ps) == IF ps = <<>> THEN <<>> ELSE <<ps[1][1], ps[1][2]>> \o flat_pairs(Tail(ps))

MatchesOf(c, term) == IF term \in DOMAIN c.postings THEN c.postings[term].matches ELSE <<>>

\* The match on query.kind: the pair (docids, matches), or a panic of unwrap()
QueryPostings(c, q) ==
    IF q.kind \in {"Tolerant", "Exact"} THEN
        LET w == q.words[1]
        IN IF w \in DOMAIN c.postings
           THEN [panic |-> FALSE, docids |-> c.postings[w].docids, matches |-> c.postings[w].matches]
           ELSE [panic |-> FALSE, docids |-> <<>>, matches |-> <<>>]
    ELSE IF Len(q.words) = 2 THEN
        LET first == MatchesOf(c, q.words[1])
            second == MatchesOf(c, q.words[2])
            matches == flat_pairs(merge_join_both(first, second, 1, 1))
            docids == dedup([i \in 1..Len(matches) |-> matches[i][1]])
        IN IF is_sort_dedup_docs(docids) /\ is_sort_dedup_matches(matches)
           THEN [panic |-> FALSE, docids |-> docids, matches |-> matches]
           ELSE [panic |-> TRUE, docids |-> <<>>, matches |-> <<>>]
    ELSE [panic |-> FALSE, docids |-> <<>>, matches |-> <<>>]

execute_query(c, st, q) ==
    LET entered == [st EXCEPT !.executed = Append(@, QueryOp(q))]
        r == QueryPostings(c, q)
    IN IF r.panic THEN Returned([entered EXCEPT !.panic = TRUE], <<>>)
       ELSE Returned([entered EXCEPT !.postings = MapInsert(@, QueryKey(q), r.matches)], r.docids)

\* sdset::multi::Intersection::new(results).into_set_buf()
Intersection(results) ==
    IF results = <<>> THEN <<>>
    ELSE SelectSeq(results[1], LAMBDA d : \A i \in 1..Len(results) : d \in Range(results[i]))

\* SetBuf::from_dirty(ids): sort and dedup
from_dirty(ids) == SortDocs(Range(ids))

RECURSIVE execute_and(_, _, _)
RECURSIVE execute_or(_, _, _)
RECURSIVE AndFill(_, _, _, _)
RECURSIVE OrLoop(_, _, _, _, _)
RECURSIVE Execute(_, _, _)

\* match op { And(ops) => execute_and, Or(ops) => execute_or, Query(q) => execute_query }
Execute(c, st, o) ==
    IF o.op = "And" THEN execute_and(c, st, o.children)
    ELSE IF o.op = "Or" THEN execute_or(c, st, o.children)
    ELSE execute_query(c, st, o.query)

\* First loop of execute_and, from operation i on: fill the cache
AndFill(c, st, ops, i) ==
    IF i > Len(ops) \/ st.panic THEN st
    ELSE IF OpKey(ops[i]) \in DOMAIN st.cache THEN AndFill(c, st, ops, i + 1)
    ELSE LET r == Execute(c, st, ops[i])
         IN IF r.st.panic THEN r.st
            ELSE AndFill(c, [r.st EXCEPT !.cache = MapInsert(@, OpKey(ops[i]), r.docids)], ops, i + 1)

execute_and(c, st, ops) ==
    LET entered == [st EXCEPT !.executed = Append(@, And(ops))]
        filled == AndFill(c, entered, ops, 1)
    IN IF filled.panic THEN Returned(filled, <<>>)
       ELSE LET present == SelectSeq(ops, LAMBDA o : OpKey(o) \in DOMAIN filled.cache)
                results == [i \in 1..Len(present) |-> filled.cache[OpKey(present[i])]]
            IN Returned(filled, Intersection(results))

\* The loop of execute_or, from operation i on, with the ids collected so far
OrLoop(c, st, ops, i, ids) ==
    IF i > Len(ops) \/ st.panic THEN Returned(st, ids)
    ELSE IF OpKey(ops[i]) \in DOMAIN st.cache
         THEN OrLoop(c, st, ops, i + 1, ids \o st.cache[OpKey(ops[i])])
    ELSE LET r == Execute(c, st, ops[i])
         IN IF r.st.panic THEN r
            ELSE OrLoop(c, [r.st EXCEPT !.cache = MapInsert(@, OpKey(ops[i]), r.docids)],
                        ops, i + 1, ids \o r.docids)

execute_or(c, st, ops) ==
    LET entered == [st EXCEPT !.executed = Append(@, Or(ops))]
        r == OrLoop(c, entered, ops, 1, <<>>)
    IN IF r.st.panic THEN Returned(r.st, <<>>)
       ELSE Returned(r.st, from_dirty(r.docids))

\* QueryResult { docids, queries }, or the panic that ended the call
traverse_query_tree(c, t) ==
    LET r == Execute(c, EvalState(EmptyMap, EmptyMap, <<>>, FALSE), t)
    IN [status |-> IF r.st.panic THEN "panic" ELSE "ok",
        docids |-> r.docids,
        queries |-> r.st.postings,
        executed |-> r.st.executed,
        cache |-> r.st.cache]

----------------------------------------------------------------------------
(* Inputs: terms, postings tables, synonym tables *)

tA == <<"a">>
tB == <<"b">>
tC == <<"c">>
tAB == <<"a", "b">>
tBA == <<"b", "a">>
tABA == <<"a", "b", "a">>

Docs == 1..MaxDoc

\* Positions, with both ends of the u8 range
Positions == {0, 1, 2, 255}

\* Strictly ascending lists of at most MaxMatches (doc, position) pairs
MatchLists ==
    {SortPairs(S) : S \in {T \in SUBSET (Docs \X Positions) : Cardinality(T) <= MaxMatches}}

\* A postings list whose docids are the documents of its matches
PostingsOfMatches(ms) == PostingsList(SortDocs({ms[i][1] : i \in 1..Len(ms)}), ms)

\* The postings of a term given its match list, None for a missing term
TermPostings(term, ms) == IF ms = None THEN EmptyMap ELSE term :> PostingsOfMatches(ms[1])

\* Some(ms) for every match list, and None
OptionalMatchLists == {None} \cup {Some(ms) : ms \in MatchLists}

PostingsTables ==
    { EmptyMap,
      \* b follows a in document 2; ab and c are indexed too
      (tA :> PostingsList(<<1, 2>>, <<<<1, 0>>, <<2, 5>>>>))
        @@ (tB :> PostingsList(<<2>>, <<<<2, 6>>>>))
        @@ (tAB :> PostingsList(<<1>>, <<<<1, 3>>>>))
        @@ (tC :> PostingsList(<<1, 2>>, <<<<1, 9>>, <<2, 9>>>>)),
      \* a b a b ... : a at positions 0 and 1, b at positions 1 and 2 of document 1
      (tA :> PostingsList(<<1>>, <<<<1, 0>>, <<1, 1>>>>))
        @@ (tB :> PostingsList(<<1>>, <<<<1, 1>>, <<1, 2>>>>)),
      \* a and b share documents but are never adjacent
      (tA :> PostingsList(<<1, 2>>, <<<<1, 0>>, <<2, 0>>>>))
        @@ (tB :> PostingsList(<<1, 2>>, <<<<1, 7>>, <<2, 3>>>>))
        @@ (tBA :> PostingsList(<<2>>, <<<<2, 4>>>>))
        @@ (tABA :> PostingsList(<<1>>, <<<<1, 4>>>>)),
      \* a at the last position, b at the first
      (tA :> PostingsList(<<1>>, <<<<1, 255>>>>))
        @@ (tB :> PostingsList(<<1>>, <<<<1, 0>>>>)),
      \* every split of a three-letter word has postings
      (tA :> PostingsList(<<1>>, <<<<1, 0>>>>))
        @@ (tB :> PostingsList(<<1, 2>>, <<<<1, 1>>, <<2, 1>>>>))
        @@ (tAB :> PostingsList(<<1, 2>>, <<<<1, 0>>, <<2, 0>>>>))
        @@ (tBA :> PostingsList(<<1, 2>>, <<<<1, 1>>, <<2, 2>>>>)) }

SynonymTables ==
    { EmptyMap,
      (<<tA>> :> <<<<tC>>>>) @@ (<<tAB>> :> <<<<tC, tA>>>>),
      (<<tA>> :> <<<<tC, tB>>, <<tC>>>>) @@ (<<tB>> :> <<<<tA>>>>),
      (<<tA, tB>> :> <<<<tC>>, <<tAB>>>>) @@ (<<tB>> :> <<<<tC, tC, tA>>>>),
      (<<tB>> :> <<<<>>>>) @@ (<<tA, tB, tA>> :> <<<<tC, tB>>>>) }

Contexts == {Context(sy, po) : sy \in SynonymTables, po \in PostingsTables}

QueryChars == {"a", "B", " "}

Queries == SeqsUpTo(QueryChars, MaxQueryLen)

----------------------------------------------------------------------------
(* Spec: create_query_tree, then traverse_query_tree on its tree *)

Init ==
    /\ pc = "start"
    /\ ctx \in Contexts
    /\ query \in Queries
    /\ word = <<>>
    /\ best = None
    /\ tree = NoTree
    /\ mapper = NoMapper
    /\ run = NoRun

CreateQueryTree ==
    /\ pc = "start"
    /\ \E r \in {create_query_tree(ctx, query)} :
          /\ tree' = r.operation
          /\ mapper' = r.mapper
    /\ pc' = "built"
    /\ UNCHANGED <<ctx, word, best, query, run>>

TraverseQueryTree ==
    /\ pc = "built"
    /\ run' = traverse_query_tree(ctx, tree)
    /\ pc' = "done"
    /\ UNCHANGED <<ctx, word, best, query, tree, mapper>>

Next == CreateQueryTree \/ TraverseQueryTree

Spec == Init /\ [][Next]_vars

----------------------------------------------------------------------------
(* SpecIds: create_query_tree for a word whose synonyms use more ids than *)
(* the stride of the id scheme leaves room for                            *)

\* For a: a synonym of 100 words, then one more; for b: one synonym
ManySynonyms ==
    (<<tA>> :> <<[i \in 1..IdStride |-> tC], <<tC>>>>) @@ (<<tB>> :> <<<<tA>>>>)

ShortQueries == SeqsUpTo(QueryChars, 3)

InitIds ==
    /\ pc = "start"
    /\ \E po \in PostingsTables : ctx = Context(ManySynonyms, po)
    /\ query \in ShortQueries
    /\ word = <<>>
    /\ best = None
    /\ tree = NoTree
    /\ mapper = NoMapper
    /\ run = NoRun

NextIds == CreateQueryTree

SpecIds == InitIds /\ [][NextIds]_vars

----------------------------------------------------------------------------
(* SpecPhrase: execute_query on a Phrase leaf *)

PhraseLeaves == {phrase2(0, p, <<l, r>>) : p \in BOOLEAN, l \in {tA}, r \in {tA, tB}}

InitPhrase ==
    /\ pc = "phrase"
    /\ \E ma, mb \in OptionalMatchLists :
          ctx = Context(EmptyMap, TermPostings(tA, ma) @@ TermPostings(tB, mb))
    /\ tree \in PhraseLeaves
    /\ query = <<>>
    /\ word = <<>>
    /\ best = None
    /\ mapper = NoMapper
    /\ run = NoRun

ExecutePhrase ==
    /\ pc = "phrase"
    /\ run' = traverse_query_tree(ctx, tree)
    /\ pc' = "phrase_done"
    /\ UNCHANGED <<ctx, word, best, query, tree, mapper>>

NextPhrase == ExecutePhrase

SpecPhrase == InitPhrase /\ [][NextPhrase]_vars

----------------------------------------------------------------------------
(* SpecTree: traverse_query_tree on any Operation tree *)

\* Leaves: two that are equal up to their id, two more of other kinds
TreeLeaves ==
    { tolerant(0, FALSE, tA), tolerant(7, FALSE, tA), exact(1, FALSE, tB),
      phrase2(2, TRUE, <<tA, tB>>) }

TreesOver(S) == {Make(f, cs) : f \in {"And", "Or"}, cs \in SeqsUpTo(S, 2)}

Trees1 == TreesOver(TreeLeaves)

Trees == TreeLeaves \cup TreesOver(TreeLeaves \cup Trees1)

TreeContexts == {Context(EmptyMap, po) : po \in PostingsTables}

InitTree ==
    /\ pc = "tree"
    /\ ctx \in TreeContexts
    /\ tree \in Trees
    /\ query = <<>>
    /\ word = <<>>
    /\ best = None
    /\ mapper = NoMapper
    /\ run = NoRun

Traverse ==
    /\ pc = "tree"
    /\ run' = traverse_query_tree(ctx, tree)
    /\ pc' = "tree_done"
    /\ UNCHANGED <<ctx, word, best, query, tree, mapper>>

NextTree == Traverse

SpecTree == InitTree /\ [][NextTree]_vars

----------------------------------------------------------------------------
(* Vocabulary of the properties *)

\* Every sub-tree of o, o included
RECURSIVE Nodes(_)
Nodes(o) == {o} \cup UNION {Nodes(o.children[i]) : i \in 1..Len(o.children)}

\* The leaf queries of o, one entry per leaf position, left to right
RECURSIVE LeafSeq(_)
RECURSIVE LeafSeqOf(_, _)
LeafSeqOf(cs, i) == IF i > Len(cs) THEN <<>> ELSE LeafSeq(cs[i]) \o LeafSeqOf(cs, i + 1)
LeafSeq(o) == IF o.op = "Query" THEN <<o.query>> ELSE LeafSeqOf(o.children, 1)

LeafQueries(o) == Range(LeafSeq(o))

\* Structural equality with leaves compared by (prefix, kind), ids ignored
RECURSIVE EqualOps(_, _)
EqualOps(x, y) ==
    /\ x.op = y.op
    /\ x.query.prefix = y.query.prefix
    /\ x.query.kind = y.query.kind
    /\ x.query.words = y.query.words
    /\ Len(x.children) = Len(y.children)
    /\ \A i \in 1..Len(x.children) : EqualOps(x.children[i], y.children[i])

\* The documents of a term: postings[term].docids, empty for a missing term
TermDocs(c, term) == IF term \in DOMAIN c.postings THEN Range(c.postings[term].docids) ELSE {}

\* The documents where some position p of l is followed by p + 1 of r
PhraseDocs(c, l, r) ==
    {m[1] : m \in {x \in Range(MatchesOf(c, l)) : <<x[1], x[2] + 1>> \in Range(MatchesOf(c, r))}}

LeafDocs(c, q) ==
    IF q.kind = "Phrase"
    THEN (IF Len(q.words) = 2 THEN PhraseDocs(c, q.words[1], q.words[2]) ELSE {})
    ELSE TermDocs(c, q.words[1])

\* The doc-id set the run computed for node o of `tree`: the returned set
\* for the root, the memo entry otherwise
Computed(o) == IF o = tree THEN Range(run.docids) ELSE Range(run.cache[OpKey(o)])

ChildSets(o) == {Computed(o.children[i]) : i \in 1..Len(o.children)}

IntersectionOf(sets) == {d \in UNION sets : \A S \in sets : d \in S}

NodesAgree ==
    \A o \in Nodes(tree) :
        /\ o.op = "Query" => Computed(o) = LeafDocs(ctx, o.query)
        /\ o.op = "And" => Computed(o) = IntersectionOf(ChildSets(o))
        /\ o.op = "Or" => Computed(o) = UNION ChildSets(o)

----------------------------------------------------------------------------
(* Properties of traverse_query_tree on any tree (SpecTree) *)

\* C1: traverse_query_tree returns, and every And node's doc-id set is the
\* intersection, every Or node's the union, of its children's doc-id sets,
\* a leaf's being the docids of its term or the phrase join of its two terms.
C1_AndOrExact == pc = "tree_done" => (run.status = "ok" /\ NodesAgree)

\* The same relation on the runs that return
C1_ExactWhenReturned == (pc = "tree_done" /\ run.status = "ok") => NodesAgree

\* C5: no two executions of one traversal are of structurally equal
\* operations (ids ignored): each class of equal sub-trees, and so each class
\* of equal leaves with its postings lookup, is executed at most once.
C5_ExecutedOnce ==
    pc = "tree_done" =>
        \A i, j \in 1..Len(run.executed) :
            i < j => ~EqualOps(run.executed[i], run.executed[j])

\* Two equal And/Or children of the root that differ in a leaf id, evaluated
C5_Witness ==
    /\ pc = "tree_done"
    /\ run.status = "ok"
    /\ \E i, j \in 1..Len(tree.children) :
          /\ i < j
          /\ tree.children[i].op /= "Query"
          /\ tree.children[i] /= tree.children[j]
          /\ EqualOps(tree.children[i], tree.children[j])
          /\ \E k \in 1..Len(run.executed) : EqualOps(run.executed[k], tree.children[i])

----------------------------------------------------------------------------
(* Properties of execute_query on a Phrase leaf (SpecPhrase) *)

\* C4: execute_query on Phrase([a, b]) returns the doc set of exactly the
\* documents d with (d, p) in matches(a) and (d, p + 1) in matches(b) for
\* some p, p + 1 not wrapping: empty when there is no such co-occurrence.
C4_PhraseDocs ==
    pc = "phrase_done" =>
        /\ run.status = "ok"
        /\ Range(run.docids) = PhraseDocs(ctx, tree.query.words[1], tree.query.words[2])

\* The same equality on the runs that return
C4_DocsWhenReturned ==
    (pc = "phrase_done" /\ run.status = "ok") =>
        Range(run.docids) = PhraseDocs(ctx, tree.query.words[1], tree.query.words[2])

----------------------------------------------------------------------------
(* Properties of create_query_tree and of the traversal of its tree (Spec) *)

Built == pc \in {"built", "done"}

\* The original words w0..w(n-1) of the query
QueryWords == LET ws == Tokenize(query) IN [i \in 1..Len(ws) |-> ws[i][2]]

NumWords == Len(QueryWords)

Declared == Range(mapper.declared)

\* C2: traverse_query_tree on the tree of create_query_tree returns; it never panics.
C2_Total == pc = "done" => run.status = "ok"

\* The documents that have every word of the query
AllWordsDocs == {d \in UNION {TermDocs(ctx, QueryWords[i]) : i \in 1..NumWords} :
                    \A i \in 1..NumWords : d \in TermDocs(ctx, QueryWords[i])}

EndToEnd ==
    /\ NumWords >= 1 => AllWordsDocs \subseteq Range(run.docids)
    /\ NumWords \in {2, 3} => TermDocs(ctx, Concat(QueryWords)) \subseteq Range(run.docids)

\* C3: the traversal returns a doc set that holds every document having all
\* the words of the query and, for two or three words, every document of
\* the concatenation of the words.
C3_EndToEnd == pc = "done" => (run.status = "ok" /\ EndToEnd)

\* The same inclusions on the runs that return
C3_InclusionsWhenReturned == (pc = "done" /\ run.status = "ok") => EndToEnd

\* C6: every leaf id is an original-word id, a declared id or a sub-word id
\* id..id+L-1 of a declared L-word replacement, and every declared range
\* lies inside 0..n.
C6_IdsCovered ==
    Built =>
        LET n == NumWords
            D == Declared
            covered == (0..(n - 1)) \cup UNION {d.id..(d.id + Max(Len(d.replacement), 1) - 1) : d \in D}
        IN /\ \A q \in LeafQueries(tree) : q.id \in covered
           /\ \A d \in D : 0 <= d.range[1] /\ d.range[1] <= d.range[2] /\ d.range[2] <= n

\* A leaf that is the second word of a declared multi-word replacement
C6_Witness ==
    /\ Built
    /\ NumWords >= 2
    /\ \E q \in LeafQueries(tree), d \in Declared :
          /\ Len(d.replacement) >= 2
          /\ q.id = d.id + 1
          /\ q.kind = "Exact"
          /\ d.range[2] - d.range[1] >= 2

\* C7: no two leaves of the tree carry the same QueryId.
C7_UniqueIds ==
    Built =>
        LET ls == LeafSeq(tree)
        IN \A i, j \in 1..Len(ls) : i < j => ls[i].id /= ls[j].id

\* Within these bounds, leaves that share an id are the same query
C7_SharedIdSameLeaf ==
    Built => \A p, q \in LeafQueries(tree) : p.id = q.id => p = q

\* The ids declared last for a range of two or three words: the concatenations
ConcatIds ==
    {d.id : d \in {e \in Declared :
                     /\ e.range[2] - e.range[1] >= 2
                     /\ \A f \in Declared : f.range = e.range => f.id <= e.id}}

\* C8: a Tolerant leaf has prefix exactly when it is the final word's; a
\* Phrase leaf exactly when it splits the final word; an Exact leaf exactly
\* when it is the concatenation of an n-gram ending at the final word, so
\* every synonym's Exact leaf has prefix = false.
C8_PrefixDiscipline ==
    Built =>
        LET n == NumWords
            D == Declared
            C == ConcatIds
            L == LeafQueries(tree)
        IN /\ \A q \in L :
                 /\ q.kind = "Tolerant" => q.prefix = (q.id = n - 1)
                 /\ q.kind = "Phrase" =>
                       \E d \in D :
                           /\ d.id = q.id
                           /\ d.replacement = q.words
                           /\ q.prefix = (d.range = <<n - 1, n>>)
                 /\ q.kind = "Exact" =>
                       IF q.id \in C
                       THEN \E d \in D : d.id = q.id /\ q.prefix = (d.range[2] = n)
                       ELSE q.prefix = FALSE
           /\ n >= 1 => \E q \in L : q.kind = "Tolerant" /\ q.id = n - 1 /\ q.prefix
           /\ n >= 2 => \E q \in L : q.kind = "Exact" /\ q.id \in C /\ q.prefix

\* A tree of three words with a prefix Phrase leaf, a prefix and a
\* non-prefix concatenation, and a synonym leaf of the final word
C8_Witness ==
    /\ Built
    /\ LET C == ConcatIds
           L == LeafQueries(tree)
       IN /\ \E q \in L : q.kind = "Phrase" /\ q.prefix
          /\ \E q \in L : q.kind = "Tolerant" /\ ~q.prefix
          /\ \E q \in L : q.kind = "Exact" /\ q.id \in C /\ q.prefix
          /\ \E q \in L : q.kind = "Exact" /\ q.id \in C /\ ~q.prefix
          /\ \E q \in L, d \in Declared :
                q.kind = "Exact" /\ q.id \notin C /\ d.id = q.id /\ d.range[2] = NumWords

\* C9: no And node and no Or node of the tree, the root included, has
\* exactly one child.
C9_NoSingleChild ==
    Built => \A o \in Nodes(tree) : o.op \in {"And", "Or"} => Len(o.children) /= 1

\* Below the root, no And node and no Or node has exactly one child
C9_NoSingleChildBelowRoot ==
    Built => \A o \in Nodes(tree) \ {tree} : o.op \in {"And", "Or"} => Len(o.children) /= 1

====
